---- MODULE Spec2Model ----
(***************************************************************************)
(* Model of the OCR service: the adaptive tiling of an image               *)
(* (AIModelService._find_closest_aspect_ratio / _dynamic_preprocess), the  *)
(* parsing and normalisation of the model's text output (ResponseParser,   *)
(* utils.py), the numeric canonicalization, the batch over the images of a *)
(* folder (OCRService.process_folder, extract_from_folder), the lazy       *)
(* initialization of the model singleton (AIModelService.initialize_model) *)
(* and the temporary files of the /image-to-text handlers.                 *)
(*                                                                         *)
(* Text is a sequence of characters, each character a one-element string   *)
(* ("|", "-", " ", ...); a word that the code never looks inside ("Rice",  *)
(* "20000") is carried as a single character of the sequence.              *)
(***************************************************************************)
EXTENDS Integers, Sequences, FiniteSets, TLC

VARIABLES
    \* ---- tiling (ai_model_service.py) ----
    tpc,               \* position in _dynamic_preprocess: "idle","scan","crop","done"
    orig_width,        \* image.size[0]
    orig_height,       \* image.size[1]
    image_size,        \* tile size s
    min_num,           \* minTiles
    max_num,           \* maxTiles
    use_thumbnail,     \* thumbnail flag
    visited,           \* candidates of target_ratios already iterated over
    best_ratio,        \* _find_closest_aspect_ratio.best_ratio
    best_ratio_diff,   \* _find_closest_aspect_ratio.best_ratio_diff, <<num, den>>; <<1, 0>> is inf
    processed_images,  \* _dynamic_preprocess.processed_images
    \* ---- parsing (response_parser.py, utils.py) ----
    ppc,               \* position in the parser: "idle","lines","normalize","done","raised"
    impl,              \* "app": ResponseParser.parse_ocr_response;
                       \* "utils": parse_ocr_response_to_json, then normalize_product_data
    response,          \* the raw text
    lines,             \* lines, each already stripped as the head of the loop does
    line_no,           \* index of the line the loop over lines is at
    header_passed,     \* header_passed
    products,          \* products
    table_products,    \* history: products as the loop over the lines left it
    json_tried,        \* history: the branch "if not products" was entered
    norm_no,           \* index of the product the normalizer's loop is at
    normalized,        \* normalized
    \* ---- batch (ocr_service.py process_folder, __main__.py extract_from_folder) ----
    entry,             \* "app": the handlers of app/; "main": the handlers of __main__.py
    bpc,               \* position in the batch: "idle","loop","done"
    image_files,       \* image_files
    file_no,           \* index of the file the loop over image_files is at
    results,           \* results
    summary,           \* the summary of the returned mapping
    extract_raised,    \* history: indices whose image decode or inference raised
    \* ---- model singleton (ai_model_service.py initialize_model) ----
    _model,            \* AIModelService._model: "None" or "model"
    _tokenizer,        \* AIModelService._tokenizer: "None" or "tokenizer"
    _device,           \* AIModelService._device: "None" or "cpu"
    _dtype,            \* AIModelService._dtype: "None" or "float32"
    mpc,               \* position of each request thread
    op,                \* the method each request thread called
    calls,             \* number of calls each request thread has made
    loads,             \* history: number of executions of the body after the check
    load_failed,       \* history: a model load or a tokenizer load has raised
    chat_tokenizers,   \* history: the tokenizers _model.chat has been invoked with
    \* ---- numeric canonicalization (response_parser.py, utils.py) ----
    cpc,               \* position in clean_numeric_value: "idle","start","stripped","digits","done"
    value,             \* value, the argument
    cleaned,           \* cleaned
    clean_out,         \* the returned string
    \* ---- upload (__main__.py image_to_text, ocr_routes.py extract_from_image) ----
    clock,             \* int(time.time())
    files,             \* the files of the upload folder: path and whose upload the content is
    upc,               \* position of each request: "new","named","saved","processed","failed","done"
    filepath,          \* filepath of each request, "None" before it is generated
    status,            \* status code of each response, 0 before it is sent
    uuids,             \* history: the uuid4 values drawn
    clobbered          \* history: a save or a cleanup hit the file of another request in flight

tvars == <<tpc, orig_width, orig_height, image_size, min_num, max_num,
           use_thumbnail, visited, best_ratio, best_ratio_diff, processed_images>>

pvars == <<ppc, impl, response, lines, line_no, header_passed, products, table_products,
           json_tried, norm_no, normalized>>

bvars == <<entry, bpc, image_files, file_no, results, summary, extract_raised>>

\* The variables of the handlers around the tiler and the parser.
mvars == <<_model, _tokenizer, _device, _dtype, mpc, op, calls, loads, load_failed,
           chat_tokenizers>>

cvars == <<cpc, value, cleaned, clean_out>>

uvars == <<clock, files, upc, filepath, status, uuids, clobbered>>

ovars == <<bvars, mvars, cvars, uvars>>

vars == <<tvars, pvars, ovars>>

-----------------------------------------------------------------------------
(* Bounds of the model *)

MaxDim == 8        \* image width and height range over 1..MaxDim
MaxTileSize == 2   \* image_size ranges over 1..MaxTileSize
MaxTiles == 6      \* min_num and max_num range over 1..MaxTiles
MaxLines == 3      \* a response has 1..MaxLines lines
MaxRows == 3       \* the normalizer is given 0..MaxRows rows

-----------------------------------------------------------------------------
(* Arithmetic helpers *)

Abs(x) == IF x < 0 THEN -x ELSE x

RECURSIVE GCD(_, _)
GCD(a, b) == IF b = 0 THEN a ELSE GCD(b, a % b)

RECURSIVE IsPow2(_)
IsPow2(n) == IF n = 1 THEN TRUE ELSE IF n % 2 = 1 THEN FALSE ELSE IsPow2(n \div 2)

\* n/d (d > 0) is a binary fraction, i.e. the float division n / d is exact.
Dyadic(n, d) == IsPow2(d \div GCD(n, d))

-----------------------------------------------------------------------------
(* AspectRatioSelector *)

\* The comprehension with range(1, n) in place of range(1, n + 1).
TargetRatiosExclusive(mn, mx) ==
    UNION { { <<i, j>> : i \in 1..(n - 1), j \in 1..(n - 1) } : n \in mn..mx }

\* target_ratios before sorting: the set comprehension of _dynamic_preprocess.
TargetRatios(mn, mx) ==
    UNION { { <<i, j>> : i \in 1..n, j \in 1..n } : n \in mn..mx }

target_ratios(mn, mx) ==
    { r \in TargetRatios(mn, mx) : r[1] * r[2] <= mx /\ r[1] * r[2] >= mn }

\* ratio_diff = abs(aspect_ratio - ratio[0] / ratio[1]) as the fraction <<num, den>>.
RatioDiff(w, h, r) == << Abs(w * r[2] - h * r[1]), h * r[2] >>

\* Exact order of two diffs; <<1, 0>> (inf) is larger than every finite diff.
DiffLess(a, b) == a[1] * b[2] < b[1] * a[2]
DiffEq(a, b) == a[1] * b[2] = b[1] * a[2]

\* The float comparison of ratio_diff with best_ratio_diff.  Diffs that differ
\* as real numbers compare as they do exactly (within the model's bounds the
\* gap is far above the rounding error).  Diffs that are equal as real numbers
\* compare equal when every quotient involved is a binary fraction; otherwise
\* the outcome is decided by the rounding of w/h and i/j, and any of the three
\* outcomes is taken.
FloatCompare(w, h, r, bd) ==
    LET d == RatioDiff(w, h, r) IN
    IF DiffLess(d, bd) THEN {"lt"}
    ELSE IF ~DiffEq(d, bd) THEN {"gt"}
    ELSE IF Dyadic(w, h) /\ Dyadic(r[1], r[2]) THEN {"eq"}
    ELSE {"lt", "eq", "gt"}

\* area > 0.5 * image_size * image_size * ratio[0] * ratio[1]
AreaPrefers(w, h, s, r) == 2 * (w * h) > s * s * r[1] * r[2]

\* The candidates that sorted(target_ratios, key = i * j) can yield next: the
\* sort is stable, so candidates of equal product come in the iteration order
\* of the set, which the language leaves open.
NextCandidates(mn, mx, seen) ==
    LET rest == target_ratios(mn, mx) \ seen IN
    { r \in rest : \A q \in rest : r[1] * r[2] <= q[1] * q[2] }

-----------------------------------------------------------------------------
(* ImageTiler *)

\* The crop box with the column and the row exchanged.
BoxColumnMajor(i, tw, s) ==
    << (i \div (tw \div s)) * s,
       (i % (tw \div s)) * s,
       ((i \div (tw \div s)) + 1) * s,
       ((i % (tw \div s)) + 1) * s >>

\* The crop box of iteration i of the split loop.
Box(i, tw, s) ==
    << (i % (tw \div s)) * s,
       (i \div (tw \div s)) * s,
       ((i % (tw \div s)) + 1) * s,
       ((i \div (tw \div s)) + 1) * s >>

target_width == image_size * best_ratio[1]
target_height == image_size * best_ratio[2]
blocks == best_ratio[1] * best_ratio[2]

\* The thumbnail appended whenever it is requested.
ThumbnailAlways(flag, n) == flag

\* use_thumbnail and len(processed_images) != 1
ThumbnailWanted(flag, n) == flag /\ n # 1

-----------------------------------------------------------------------------
(* Text helpers: str.strip, str.split, the in operator *)

\* Characters that str.strip() and the regex class \s remove.
IsSpace(c) == c \in {" ", "\t", "\n"}

RECURSIVE LStrip(_)
LStrip(s) == IF s = <<>> THEN s ELSE IF IsSpace(Head(s)) THEN LStrip(Tail(s)) ELSE s

RECURSIVE RStrip(_)
RStrip(s) ==
    IF s = <<>> THEN s
    ELSE IF IsSpace(s[Len(s)]) THEN RStrip(SubSeq(s, 1, Len(s) - 1)) ELSE s

\* str.strip()
Strip(s) == RStrip(LStrip(s))

\* c in s
Contains(s, c) == \E i \in 1..Len(s) : s[i] = c

\* s.split(sep): n occurrences of sep give n + 1 parts.
RECURSIVE Split(_, _)
Split(s, sep) ==
    IF ~Contains(s, sep) THEN <<s>>
    ELSE LET i == CHOOSE k \in 1..Len(s) : s[k] = sep /\ \A m \in 1..(k - 1) : s[m] # sep
         IN <<SubSeq(s, 1, i - 1)>> \o Split(SubSeq(s, i + 1, Len(s)), sep)

\* [f(p) for p in parts]
RECURSIVE StripAll(_)
StripAll(parts) ==
    IF parts = <<>> THEN <<>> ELSE <<Strip(Head(parts))>> \o StripAll(Tail(parts))

\* str.lower() on the words of the model's alphabet that hold capitals.
Lower(c) ==
    CASE c = "Ten hang" -> "ten hang"
      [] c = "SO LUONG" -> "so luong"
      [] c = "Name" -> "name"
      [] OTHER -> c

-----------------------------------------------------------------------------
(* JSON values and json.loads *)

\* A decoded value is [t |-> kind, v |-> content]: a str holds its characters,
\* an int its digits, a list its elements, a dict its (key, value) members in
\* the order they were written (dict.get reads the last member of a key).
StrVal(chars) == [t |-> "str", v |-> chars]
NumVal(word) == [t |-> "num", v |-> <<word>>]
NoneVal == [t |-> "null", v |-> <<>>]
ListVal(elems) == [t |-> "list", v |-> elems]
DictVal(members) == [t |-> "dict", v |-> members]
Member(key, val) == [k |-> key, val |-> val]

\* The digit words of the model's alphabet.
IsNumber(c) == c \in {"0", "1", "2", "3", "5", "10", "15000", "20000", "40000", "45000"}

\* Whitespace json.loads skips between tokens.
IsJsonSpace(c) == c \in {" ", "\t", "\n"}

JsonFail == [ok |-> FALSE, val |-> NoneVal, pos |-> 0]
JsonOk(val, pos) == [ok |-> TRUE, val |-> val, pos |-> pos]

RECURSIVE SkipJsonSpace(_, _)
SkipJsonSpace(s, p) ==
    IF p <= Len(s) /\ IsJsonSpace(s[p]) THEN SkipJsonSpace(s, p + 1) ELSE p

\* A string literal opening at s[p]: up to the next quote; a raw control
\* character inside it is an error (strict mode).
ParseString(s, p) ==
    LET closes == { q \in (p + 1)..Len(s) : s[q] = "\"" } IN
    IF closes = {} THEN JsonFail
    ELSE LET q == CHOOSE x \in closes : \A y \in closes : x <= y
             body == SubSeq(s, p + 1, q - 1)
         IN IF \E i \in 1..Len(body) : body[i] \in {"\n", "\t"}
            THEN JsonFail
            ELSE JsonOk(StrVal(body), q + 1)

RECURSIVE ParseValue(_, _)
RECURSIVE ParseElements(_, _, _)
RECURSIVE ParseMembers(_, _, _)

\* The elements of a list after "[" or ",", up to the closing "]".
ParseElements(s, p, acc) ==
    LET r == ParseValue(s, p) IN
    IF ~r.ok THEN JsonFail
    ELSE LET q == SkipJsonSpace(s, r.pos) IN
         IF q > Len(s) THEN JsonFail
         ELSE IF s[q] = "," THEN ParseElements(s, q + 1, Append(acc, r.val))
         ELSE IF s[q] = "]" THEN JsonOk(ListVal(Append(acc, r.val)), q + 1)
         ELSE JsonFail

\* The members of a dict after "{" or ",", up to the closing "}".
ParseMembers(s, p, acc) ==
    LET q == SkipJsonSpace(s, p) IN
    IF q > Len(s) \/ s[q] # "\"" THEN JsonFail
    ELSE LET key == ParseString(s, q) IN
         IF ~key.ok THEN JsonFail
         ELSE LET c == SkipJsonSpace(s, key.pos) IN
              IF c > Len(s) \/ s[c] # ":" THEN JsonFail
              ELSE LET r == ParseValue(s, c + 1) IN
                   IF ~r.ok THEN JsonFail
                   ELSE LET e == SkipJsonSpace(s, r.pos)
                            members == Append(acc, Member(key.val.v, r.val))
                        IN IF e > Len(s) THEN JsonFail
                           ELSE IF s[e] = "," THEN ParseMembers(s, e + 1, members)
                           ELSE IF s[e] = "}" THEN JsonOk(DictVal(members), e + 1)
                           ELSE JsonFail

ParseValue(s, p0) ==
    LET p == SkipJsonSpace(s, p0) IN
    IF p > Len(s) THEN JsonFail
    ELSE IF s[p] = "\"" THEN ParseString(s, p)
    ELSE IF s[p] = "[" THEN
        LET q == SkipJsonSpace(s, p + 1) IN
        IF q <= Len(s) /\ s[q] = "]" THEN JsonOk(ListVal(<<>>), q + 1)
        ELSE ParseElements(s, p + 1, <<>>)
    ELSE IF s[p] = "{" THEN
        LET q == SkipJsonSpace(s, p + 1) IN
        IF q <= Len(s) /\ s[q] = "}" THEN JsonOk(DictVal(<<>>), q + 1)
        ELSE ParseMembers(s, p + 1, <<>>)
    ELSE IF IsNumber(s[p]) THEN JsonOk(NumVal(s[p]), p + 1)
    ELSE IF s[p] = "null" THEN JsonOk(NoneVal, p + 1)
    ELSE JsonFail

\* json.loads(s): one value and nothing but whitespace after it; ok = FALSE
\* stands for JSONDecodeError.
JsonLoads(s) ==
    LET r == ParseValue(s, 1) IN
    IF r.ok /\ SkipJsonSpace(s, r.pos) > Len(s) THEN r ELSE JsonFail

\* re.search(r'\[.*\]|\{.*\}', s, re.DOTALL): the leftmost "[" with a "]" after
\* it, or "{" with a "}" after it, up to the last such closer; <<>> is no match.
JsonMatch(s) ==
    LET Closer(c) == IF c = "[" THEN "]" ELSE "}"
        starts == { p \in 1..Len(s) :
                      /\ s[p] \in {"[", "{"}
                      /\ \E q \in (p + 1)..Len(s) : s[q] = Closer(s[p]) }
    IN IF starts = {} THEN <<>>
       ELSE LET p == CHOOSE x \in starts : \A y \in starts : x <= y
                ends == { q \in (p + 1)..Len(s) : s[q] = Closer(s[p]) }
                e == CHOOSE x \in ends : \A y \in ends : x >= y
            IN SubSeq(s, p, e)

\* dict.get(key, default)
Get(d, key, default) ==
    LET at == { i \in 1..Len(d.v) : d.v[i].k = key } IN
    IF at = {} THEN default
    ELSE d.v[CHOOSE i \in at : \A j \in at : i >= j].val

\* str(value) of a str, an int or None.
Str(x) ==
    CASE x.t = "str" -> x.v
      [] x.t = "num" -> x.v
      [] x.t = "null" -> <<"None">>

-----------------------------------------------------------------------------
(* ResponseTableParser *)

\* re.match(r'^[\|\s]*---', line) of ResponseParser: pipes and whitespace, then
\* three dashes.
RECURSIVE SkipPipesAndSpace(_, _)
SkipPipesAndSpace(s, p) ==
    IF p <= Len(s) /\ (s[p] = "|" \/ IsSpace(s[p])) THEN SkipPipesAndSpace(s, p + 1) ELSE p

IsSeparatorApp(line) ==
    LET p == SkipPipesAndSpace(line, 1) IN
    p + 2 <= Len(line) /\ line[p] = "-" /\ line[p + 1] = "-" /\ line[p + 2] = "-"

\* re.match(r'^\|[\s\-:]+\|', line) of utils.py: a pipe, one or more of
\* whitespace, dash and colon, then a pipe.
RECURSIVE SkipDashes(_, _)
SkipDashes(s, p) ==
    IF p <= Len(s) /\ (IsSpace(s[p]) \/ s[p] \in {"-", ":"}) THEN SkipDashes(s, p + 1) ELSE p

IsSeparatorUtils(line) ==
    /\ Len(line) >= 1 /\ line[1] = "|"
    /\ LET p == SkipDashes(line, 2) IN p > 2 /\ p <= Len(line) /\ line[p] = "|"

IsSeparator(im, line) == IF im = "app" THEN IsSeparatorApp(line) ELSE IsSeparatorUtils(line)

\* any(keyword in line.lower() for keyword in [...]) of ResponseParser.
HasHeaderKeyword(line) ==
    \E i \in 1..Len(line) :
        Lower(line[i]) \in {"tên hàng", "ten hang", "số lượng", "so luong"}

\* The segments kept when every empty one goes, wherever it stands.
NonEmpty(parts) == SelectSeq(parts, LAMBDA q : q # <<>>)

\* parts = [p.strip() for p in line.split('|')]; parts = [p for p in parts if p]
Parts(line) == NonEmpty(StripAll(Split(line, "|")))

\* The product built from parts[0..3].
Product(parts) ==
    DictVal(<< Member(<<"ten_hang">>, StrVal(parts[1])),
               Member(<<"so_luong">>, StrVal(parts[2])),
               Member(<<"don_gia">>, StrVal(parts[3])),
               Member(<<"thanh_tien">>, StrVal(parts[4])) >>)

\* lines = response.strip().split('\n'), each stripped at the head of the loop.
Lines(r) == StripAll(Split(Strip(r), "\n"))

\* The products the fallback leaves: the decoded list, or the decoded dict as
\* the only element, or nothing on no match and on JSONDecodeError.
JsonProducts(r) ==
    LET m == JsonMatch(r) IN
    IF m = <<>> THEN <<>>
    ELSE LET parsed == JsonLoads(m) IN
         IF ~parsed.ok THEN <<>>
         ELSE IF parsed.val.t = "list" THEN parsed.val.v
         ELSE IF parsed.val.t = "dict" THEN <<parsed.val>>
         ELSE <<>>

-----------------------------------------------------------------------------
(* FieldNormalizer *)

\* The keys of a normalized product: English in ResponseParser, unchanged in utils.py.
OutKeys(im) ==
    IF im = "app" THEN << <<"name">>, <<"quantity">>, <<"unit_price">>, <<"total">> >>
    ELSE << <<"ten_hang">>, <<"so_luong">>, <<"don_gia">>, <<"thanh_tien">> >>

\* normalized_product of one loop iteration.
NormalizedProduct(im, product) ==
    DictVal(<< Member(OutKeys(im)[1], StrVal(Strip(Str(Get(product, <<"ten_hang">>, StrVal(<<>>)))))),
               Member(OutKeys(im)[2], StrVal(Strip(Str(Get(product, <<"so_luong">>, StrVal(<<"0">>)))))),
               Member(OutKeys(im)[3], StrVal(Strip(Str(Get(product, <<"don_gia">>, StrVal(<<"0">>)))))),
               Member(OutKeys(im)[4], StrVal(Strip(Str(Get(product, <<"thanh_tien">>, StrVal(<<"0">>)))))) >>)

\* Every normalized product appended, whatever its name.
KeptAlways(im, np) == TRUE

\* if normalized_product["name"]
Kept(im, np) == Get(np, OutKeys(im)[1], StrVal(<<>>)).v # <<>>

-----------------------------------------------------------------------------
(* The responses and the rows the model is run on *)

Q == "\""

HeaderLine == <<"Ten hang", "|", "SO LUONG", "|", "Don gia", "|", "Thanh tien">>
SepPlain == <<"-", "-", "-", "|", "-", "-", "-">>
SepAligned == <<"|", ":", "-", "-", "|", "-", "-", ":", "|">>
RowBeer == <<"|", " ", "Beer", " ", "|", " ", "3", " ", "|", " ", "15000", " ", "|", " ", "45000", " ", "|">>
RowShort == <<"Tea", "|", "1", "|", "5">>
RowLong == <<"Cake", "|", "1", "|", "2", "|", "3", "|", "5">>
RowGap == <<"|", " ", "A", " ", "|", " ", " ", "|", " ", "5", " ", "|", " ", "10", " ", "|">>
BlankLine == <<" ">>
RefLine == <<"see", " ", "[", "1", "]", ":">>
JsonList ==
    <<"[", "{", Q, "ten_hang", Q, ":", Q, "Beer", " ", Q, ",", Q, "so_luong", Q, ":", "3", "}", ",",
      "{", Q, "ten_hang", Q, ":", Q, " ", Q, "}", ",",
      "{", Q, "ten_hang", Q, ":", Q, "Tea", Q, "}", "]">>
JsonDict ==
    <<"{", Q, "ten_hang", Q, ":", Q, "Rice", Q, ",", Q, "thanh_tien", Q, ":", "null", "}">>
JsonBroken == <<"[", "{", Q, "ten_hang", Q, ":", Q, "Tea", Q, ",", "}", "]">>
JsonScalars == <<"[", Q, "Rice", Q, ",", "null", ",", "2", "]">>

LinePool ==
    { HeaderLine, SepPlain, SepAligned, RowBeer, RowShort, RowLong, RowGap,
      BlankLine, RefLine, JsonList, JsonDict, JsonBroken, JsonScalars }

\* "\n".join(ls)
RECURSIVE JoinLines(_)
JoinLines(ls) ==
    IF Len(ls) = 1 THEN ls[1] ELSE ls[1] \o <<"\n">> \o JoinLines(Tail(ls))

Responses ==
    { JoinLines(ls) : ls \in UNION { [1..n -> LinePool] : n \in 1..MaxLines } }

\* The row mappings the normalizer is given on its own.
RowFull ==
    DictVal(<< Member(<<"ten_hang">>, StrVal(<<" ", "Beer", " ">>)),
               Member(<<"so_luong">>, StrVal(<<" ", "3">>)),
               Member(<<"don_gia">>, StrVal(<<"15000", "\t">>)),
               Member(<<"thanh_tien">>, StrVal(<<"45000">>)) >>)
RowNoName ==
    DictVal(<< Member(<<"so_luong">>, StrVal(<<"2">>)),
               Member(<<"don_gia">>, StrVal(<<"20000">>)) >>)
RowEmptyName ==
    DictVal(<< Member(<<"ten_hang">>, StrVal(<<>>)),
               Member(<<"so_luong">>, StrVal(<<"1">>)),
               Member(<<"don_gia">>, StrVal(<<"5">>)),
               Member(<<"thanh_tien">>, StrVal(<<"5">>)) >>)
RowBlankName ==
    DictVal(<< Member(<<"ten_hang">>, StrVal(<<" ", "\t">>)),
               Member(<<"thanh_tien">>, StrVal(<<"10">>)) >>)
RowNameOnly == DictVal(<< Member(<<"ten_hang">>, StrVal(<<"Tea">>)) >>)
RowMixed ==
    DictVal(<< Member(<<"ten_hang">>, StrVal(<<"Rice">>)),
               Member(<<"so_luong">>, NumVal("2")),
               Member(<<"don_gia">>, NoneVal),
               Member(<<"thanh_tien">>, StrVal(<<" ">>)) >>)

RowPool == { RowFull, RowNoName, RowEmptyName, RowBlankName, RowNameOnly, RowMixed }

RowLists == UNION { [1..n -> RowPool] : n \in 0..MaxRows }

-----------------------------------------------------------------------------
(* Parsing: state machine of parse_ocr_response *)

line == lines[line_no]
InLoop == ppc = "lines" /\ line_no <= Len(lines)

ParseInit ==
    /\ ppc = "lines"
    /\ impl \in {"app", "utils"}
    /\ response \in Responses
    /\ lines = Lines(response)
    /\ line_no = 1
    /\ header_passed = FALSE
    /\ products = <<>>
    /\ table_products = <<>>
    /\ json_tried = FALSE
    /\ norm_no = 1
    /\ normalized = <<>>

\* if not line: continue
SkipBlank ==
    /\ UNCHANGED <<tvars, ovars>>
    /\ InLoop /\ line = <<>>
    /\ line_no' = line_no + 1
    /\ UNCHANGED <<ppc, impl, response, lines, header_passed, products, table_products,
                   json_tried, norm_no, normalized>>

\* the separator: header_passed = True; continue
MarkSeparator ==
    /\ UNCHANGED <<tvars, ovars>>
    /\ InLoop /\ line # <<>> /\ IsSeparator(impl, line)
    /\ header_passed' = TRUE
    /\ line_no' = line_no + 1
    /\ UNCHANGED <<ppc, impl, response, lines, products, table_products, json_tried,
                   norm_no, normalized>>

\* ResponseParser only: a header line before the separator: continue
SkipHeader ==
    /\ UNCHANGED <<tvars, ovars>>
    /\ InLoop /\ line # <<>> /\ ~IsSeparator(impl, line)
    /\ impl = "app" /\ ~header_passed /\ HasHeaderKeyword(line)
    /\ line_no' = line_no + 1
    /\ UNCHANGED <<ppc, impl, response, lines, header_passed, products, table_products,
                   json_tried, norm_no, normalized>>

IsHeaderSkipped == impl = "app" /\ ~header_passed /\ HasHeaderKeyword(line)

\* a table row: products.append(product) when it has four parts or more
ParseRow ==
    /\ UNCHANGED <<tvars, ovars>>
    /\ InLoop /\ line # <<>> /\ ~IsSeparator(impl, line) /\ ~IsHeaderSkipped
    /\ Contains(line, "|") /\ header_passed
    /\ products' = IF Len(Parts(line)) >= 4
                   THEN Append(products, Product(Parts(line)))
                   ELSE products
    /\ line_no' = line_no + 1
    /\ UNCHANGED <<ppc, impl, response, lines, header_passed, table_products, json_tried,
                   norm_no, normalized>>

\* any other line falls through the loop body
SkipLine ==
    /\ UNCHANGED <<tvars, ovars>>
    /\ InLoop /\ line # <<>> /\ ~IsSeparator(impl, line) /\ ~IsHeaderSkipped
    /\ ~(Contains(line, "|") /\ header_passed)
    /\ line_no' = line_no + 1
    /\ UNCHANGED <<ppc, impl, response, lines, header_passed, products, table_products,
                   json_tried, norm_no, normalized>>

\* the loop has ended with products: they are returned as they are
ReturnTable ==
    /\ UNCHANGED <<tvars, ovars>>
    /\ ppc = "lines" /\ line_no > Len(lines)
    /\ products # <<>>
    /\ table_products' = products
    /\ ppc' = "normalize"
    /\ UNCHANGED <<impl, response, lines, line_no, header_passed, products, json_tried,
                   norm_no, normalized>>

\* The JSON fallback entered whatever the loop produced.
TryJsonAlways ==
    /\ UNCHANGED <<tvars, ovars>>
    /\ ppc = "lines" /\ line_no > Len(lines)
    /\ table_products' = products
    /\ json_tried' = TRUE
    /\ products' = JsonProducts(response)
    /\ ppc' = "normalize"
    /\ UNCHANGED <<impl, response, lines, line_no, header_passed, norm_no, normalized>>

\* the loop has ended without products: the JSON fallback
TryJson ==
    /\ UNCHANGED <<tvars, ovars>>
    /\ ppc = "lines" /\ line_no > Len(lines)
    /\ products = <<>>
    /\ table_products' = products
    /\ json_tried' = TRUE
    /\ products' = JsonProducts(response)
    /\ ppc' = "normalize"
    /\ UNCHANGED <<impl, response, lines, line_no, header_passed, norm_no, normalized>>

\* One iteration of the normalizer's loop; product.get raises AttributeError on
\* a product that is no dict.
NormalizeProduct ==
    /\ UNCHANGED <<tvars, ovars>>
    /\ ppc = "normalize" /\ norm_no <= Len(products)
    /\ LET product == products[norm_no] IN
       IF product.t # "dict"
       THEN /\ ppc' = "raised"
            /\ UNCHANGED <<norm_no, normalized>>
       ELSE /\ normalized' =
                 IF Kept(impl, NormalizedProduct(impl, product))
                 THEN Append(normalized, NormalizedProduct(impl, product))
                 ELSE normalized
            /\ norm_no' = norm_no + 1
            /\ UNCHANGED ppc
    /\ UNCHANGED <<impl, response, lines, line_no, header_passed, products, table_products,
                   json_tried>>

\* return normalized
ReturnNormalized ==
    /\ UNCHANGED <<tvars, ovars>>
    /\ ppc = "normalize" /\ norm_no > Len(products)
    /\ ppc' = "done"
    /\ UNCHANGED <<impl, response, lines, line_no, header_passed, products, table_products,
                   json_tried, norm_no, normalized>>

\* The batch handler is not running.
BatchNotCalled ==
    /\ bpc = "idle" /\ image_files = <<>> /\ file_no = 1
    /\ results = <<>> /\ summary = [total |-> 0, successful |-> 0, failed |-> 0]
    /\ extract_raised = {}

BatchIdle == entry = "app" /\ BatchNotCalled

NumThreads == 2

Threads == 1..NumThreads

\* No request thread has called the model service.
ModelIdle ==
    /\ _model = "None" /\ _tokenizer = "None" /\ _device = "None" /\ _dtype = "None"
    /\ mpc = [t \in Threads |-> "idle"] /\ op = [t \in Threads |-> "none"]
    /\ calls = [t \in Threads |-> 0]
    /\ loads = 0 /\ load_failed = FALSE /\ chat_tokenizers = {}

\* clean_numeric_value is not running.
CleanIdle == cpc = "idle" /\ value = <<>> /\ cleaned = <<>> /\ clean_out = <<>>

NumRequests == 2

Requests == 1..NumRequests

\* No upload has been received; the upload folder is empty.
UploadIdle ==
    /\ clock = 0 /\ files = {}
    /\ upc = [r \in Requests |-> "new"] /\ filepath = [r \in Requests |-> "None"]
    /\ status = [r \in Requests |-> 0]
    /\ uuids = {} /\ clobbered = FALSE

OthersIdle == BatchIdle /\ ModelIdle /\ CleanIdle /\ UploadIdle

ParserIdle ==
    /\ ppc = "idle" /\ impl = "app" /\ response = <<>> /\ lines = <<>> /\ line_no = 1
    /\ header_passed = FALSE /\ products = <<>> /\ table_products = <<>>
    /\ json_tried = FALSE /\ norm_no = 1 /\ normalized = <<>>

TilerIdle ==
    /\ tpc = "idle" /\ orig_width = 1 /\ orig_height = 1 /\ image_size = 1
    /\ min_num = 1 /\ max_num = 1 /\ use_thumbnail = FALSE /\ visited = {}
    /\ best_ratio = <<1, 1>> /\ best_ratio_diff = <<1, 0>> /\ processed_images = <<>>

ParseNext ==
    \/ SkipBlank \/ MarkSeparator \/ SkipHeader \/ ParseRow \/ SkipLine
    \/ ReturnTable \/ TryJson \/ NormalizeProduct \/ ReturnNormalized

InitParse == ParseInit /\ TilerIdle /\ OthersIdle

SpecParse == InitParse /\ [][ParseNext]_vars

\* The normalizer called on its own on a list of row mappings.
NormInit ==
    /\ ppc = "normalize"
    /\ impl \in {"app", "utils"}
    /\ response = <<>>
    /\ lines = <<>>
    /\ line_no = 1
    /\ header_passed = FALSE
    /\ products \in RowLists
    /\ table_products = <<>>
    /\ json_tried = FALSE
    /\ norm_no = 1
    /\ normalized = <<>>

InitNorm == NormInit /\ TilerIdle /\ OthersIdle

NormNext == NormalizeProduct \/ ReturnNormalized

SpecNorm == InitNorm /\ [][NormNext]_vars

-----------------------------------------------------------------------------
(* Tiling: state machine of _dynamic_preprocess *)

TileInit ==
    /\ tpc = "scan"
    /\ orig_width \in 1..MaxDim
    /\ orig_height \in 1..MaxDim
    /\ image_size \in 1..MaxTileSize
    /\ min_num \in 1..MaxTiles
    /\ max_num \in 1..MaxTiles
    /\ use_thumbnail \in BOOLEAN
    /\ visited = {}
    /\ best_ratio = <<1, 1>>
    /\ best_ratio_diff = <<1, 0>>
    /\ processed_images = <<>>

\* One iteration of the loop of _find_closest_aspect_ratio.
ScanRatio ==
    /\ UNCHANGED <<pvars, ovars>>
    /\ tpc = "scan"
    /\ \E ratio \in NextCandidates(min_num, max_num, visited) :
       \E c \in FloatCompare(orig_width, orig_height, ratio, best_ratio_diff) :
          /\ visited' = visited \cup {ratio}
          /\ IF c = "lt"
             THEN /\ best_ratio_diff' = RatioDiff(orig_width, orig_height, ratio)
                  /\ best_ratio' = ratio
             ELSE IF c = "eq" /\ AreaPrefers(orig_width, orig_height, image_size, ratio)
             THEN /\ best_ratio' = ratio
                  /\ UNCHANGED best_ratio_diff
             ELSE UNCHANGED <<best_ratio, best_ratio_diff>>
    /\ UNCHANGED <<tpc, orig_width, orig_height, image_size, min_num, max_num,
                   use_thumbnail, processed_images>>

\* The loop is exhausted: best_ratio is returned and the image is resized.
SelectRatio ==
    /\ UNCHANGED <<pvars, ovars>>
    /\ tpc = "scan"
    /\ NextCandidates(min_num, max_num, visited) = {}
    /\ tpc' = "crop"
    /\ UNCHANGED <<orig_width, orig_height, image_size, min_num, max_num,
                   use_thumbnail, visited, best_ratio, best_ratio_diff, processed_images>>

\* One iteration of the split loop.
CropTile ==
    /\ UNCHANGED <<pvars, ovars>>
    /\ tpc = "crop"
    /\ Len(processed_images) < blocks
    /\ processed_images' =
         Append(processed_images,
                [kind |-> "tile", box |-> Box(Len(processed_images), target_width, image_size)])
    /\ UNCHANGED <<tpc, orig_width, orig_height, image_size, min_num, max_num,
                   use_thumbnail, visited, best_ratio, best_ratio_diff>>

\* After the split loop: the thumbnail, then return.
FinishTiles ==
    /\ UNCHANGED <<pvars, ovars>>
    /\ tpc = "crop"
    /\ Len(processed_images) = blocks
    /\ processed_images' =
         IF ThumbnailWanted(use_thumbnail, Len(processed_images))
         THEN Append(processed_images,
                     [kind |-> "thumbnail", box |-> <<0, 0, image_size, image_size>>])
         ELSE processed_images
    /\ tpc' = "done"
    /\ UNCHANGED <<orig_width, orig_height, image_size, min_num, max_num,
                   use_thumbnail, visited, best_ratio, best_ratio_diff>>

TileNext == ScanRatio \/ SelectRatio \/ CropTile \/ FinishTiles

InitTile == TileInit /\ ParserIdle /\ OthersIdle

SpecTile == InitTile /\ [][TileNext]_vars

-----------------------------------------------------------------------------
(* Claims about the tiling *)

Selected == tpc \in {"crop", "done"}

\* C1: for valid bounds the selected grid (i, j) has minTiles <= i*j <= maxTiles
\* and |w/h - i/j| is no larger than that of any pair (i', j') with i', j' >= 1
\* and minTiles <= i'*j' <= maxTiles.
C1_GridIsClosest ==
    (Selected /\ min_num <= max_num) =>
        /\ min_num <= blocks /\ blocks <= max_num
        /\ \A i \in 1..max_num, j \in 1..max_num :
              (min_num <= i * j /\ i * j <= max_num) =>
                 ~DiffLess(RatioDiff(orig_width, orig_height, <<i, j>>),
                           RatioDiff(orig_width, orig_height, best_ratio))

\* A grid other than the default was selected for an image whose aspect ratio
\* no candidate matches exactly.
C1_Witness ==
    /\ tpc = "done" /\ min_num <= max_num
    /\ best_ratio = <<1, 3>>
    /\ orig_width * 3 # orig_height

\* The scan of _find_closest_aspect_ratio over a given sequence of candidates,
\* with exact comparisons.
RECURSIVE ScanInOrder(_, _, _, _, _, _)
ScanInOrder(order, w, h, s, best, bd) ==
    IF order = <<>> THEN best
    ELSE LET r == Head(order)
             d == RatioDiff(w, h, r)
         IN IF DiffLess(d, bd) THEN ScanInOrder(Tail(order), w, h, s, r, d)
            ELSE IF DiffEq(d, bd) /\ AreaPrefers(w, h, s, r)
                 THEN ScanInOrder(Tail(order), w, h, s, r, bd)
                 ELSE ScanInOrder(Tail(order), w, h, s, best, bd)

\* The candidates by product, those of equal product by their first component.
RECURSIVE ByProductThenFirst(_)
ByProductThenFirst(S) ==
    IF S = {} THEN <<>>
    ELSE LET r == CHOOSE x \in S : \A y \in S :
                     \/ x[1] * x[2] < y[1] * y[2]
                     \/ x[1] * x[2] = y[1] * y[2] /\ x[1] <= y[1]
         IN <<r>> \o ByProductThenFirst(S \ {r})

\* Some two candidates are equally far from w/h while a quotient involved is
\* no binary fraction, so that rounding decides their comparison.
RoundingDecides ==
    \E a, b \in target_ratios(min_num, max_num) :
        /\ a # b
        /\ DiffEq(RatioDiff(orig_width, orig_height, a), RatioDiff(orig_width, orig_height, b))
        /\ ~(Dyadic(orig_width, orig_height) /\ Dyadic(a[1], a[2]) /\ Dyadic(b[1], b[2]))

\* C2: the selected pair is a function of (w, h, s, minTiles, maxTiles) alone and
\* does not depend on the order in which candidates of equal product are visited:
\* it is the pair the scan selects when it visits them by product and then by
\* their first component.  Stated for the inputs whose comparisons no rounding
\* decides, where the tie-break applies exactly as written.
C2_OrderIndependent ==
    (Selected /\ ~RoundingDecides) =>
        best_ratio = ScanInOrder(ByProductThenFirst(target_ratios(min_num, max_num)),
                                 orig_width, orig_height, image_size, <<1, 1>>, <<1, 0>>)

\* C3: the output holds exactly i*j grid tiles, followed by exactly one thumbnail
\* if and only if the thumbnail was requested and i*j # 1.
C3_TileCount ==
    tpc = "done" =>
        /\ Len(processed_images) =
              blocks + (IF use_thumbnail /\ blocks # 1 THEN 1 ELSE 0)
        /\ \A k \in 1..Len(processed_images) :
              processed_images[k].kind = (IF k <= blocks THEN "tile" ELSE "thumbnail")

\* A grid of several tiles with the thumbnail appended last.
C3_Witness ==
    /\ tpc = "done" /\ use_thumbnail /\ blocks > 1
    /\ Len(processed_images) = blocks + 1
    /\ processed_images[blocks + 1].kind = "thumbnail"

InBox(x, y, b) == b[1] <= x /\ x < b[3] /\ b[2] <= y /\ y < b[4]

\* C4: tile k is the box of column k mod i and row k div i, every box lies in
\* the resized image of size (s*i) x (s*j), and every pixel of the resized image
\* lies in exactly one box.
C4_RowMajorCover ==
    tpc = "done" =>
        LET i == best_ratio[1]
            j == best_ratio[2]
            s == image_size
        IN /\ \A k \in 0..(i * j - 1) :
                 LET col == k % i
                     row == k \div i
                     b == processed_images[k + 1].box
                 IN /\ b = << col * s, row * s, (col + 1) * s, (row + 1) * s >>
                    /\ b[3] <= s * i /\ b[4] <= s * j
           /\ \A x \in 0..(s * i - 1), y \in 0..(s * j - 1) :
                 Cardinality({ k \in 1..(i * j) : InBox(x, y, processed_images[k].box) }) = 1

\* A grid of two columns and two rows of tiles of size two was cut.
C4_Witness ==
    /\ tpc = "done" /\ best_ratio = <<2, 2>> /\ image_size = 2
    /\ Len(processed_images) >= 4

-----------------------------------------------------------------------------
(* Claims about the parser and the normalizer *)

LoopEnded == ppc \in {"normalize", "done", "raised"}

RECURSIVE DropLeadingEmpty(_)
DropLeadingEmpty(parts) ==
    IF parts # <<>> /\ Head(parts) = <<>> THEN DropLeadingEmpty(Tail(parts)) ELSE parts

RECURSIVE DropTrailingEmpty(_)
DropTrailingEmpty(parts) ==
    IF parts # <<>> /\ parts[Len(parts)] = <<>>
    THEN DropTrailingEmpty(SubSeq(parts, 1, Len(parts) - 1))
    ELSE parts

\* The segments of a row as the design states them: split on "|", each segment
\* trimmed, the empty leading and trailing segments removed.
Segments(l) == DropTrailingEmpty(DropLeadingEmpty(StripAll(Split(l, "|"))))

\* The record of four cells under the keys of the normalizer of im.
Record(im, cells) ==
    DictVal(<< Member(OutKeys(im)[1], StrVal(cells[1])),
               Member(OutKeys(im)[2], StrVal(cells[2])),
               Member(OutKeys(im)[3], StrVal(cells[3])),
               Member(OutKeys(im)[4], StrVal(cells[4])) >>)

\* A line consisting only of "|", "-", ":" and whitespace.
IsSeparatorShaped(l) ==
    /\ l # <<>> /\ Contains(l, "-")
    /\ \A i \in 1..Len(l) : l[i] \in {"|", "-", ":", " ", "\t"}

\* A line of exactly four non-empty pipe-separated cells.
IsDataLine(l) ==
    /\ Len(Segments(l)) = 4
    /\ \A i \in 1..4 : Segments(l)[i] # <<>>

\* One header line, one separator line, then data lines only.
IsPlainTable(ls) ==
    /\ Len(ls) >= 3
    /\ ls[1] # <<>> /\ ~IsSeparatorShaped(ls[1])
    /\ IsSeparatorShaped(ls[2])
    /\ \A i \in 3..Len(ls) : IsDataLine(ls[i])

\* C5: for a header line, a separator line made only of "|", "-", ":" and
\* whitespace, then data lines of exactly four non-empty cells each,
\* ResponseParser.parse_ocr_response yields exactly one record per data line, in
\* line order, holding the four trimmed cells; header and separator give none.
C5_PlainTableParsed ==
    (ppc \in {"done", "raised"} /\ impl = "app" /\ IsPlainTable(lines)) =>
        /\ ppc = "done"
        /\ normalized = [ k \in 1..(Len(lines) - 2) |-> Record("app", Segments(lines[k + 2])) ]

\* The rows the table state machine emits by the design: in AFTER_SEPARATOR each
\* line with a pipe gives one row of its first four segments when it has four
\* or more, and none otherwise; the line that is taken as a separator and the
\* blank line give none.
RECURSIVE DesignRows(_, _, _)
DesignRows(im, ls, after) ==
    IF ls = <<>> THEN <<>>
    ELSE LET l == Head(ls) IN
         IF l = <<>> THEN DesignRows(im, Tail(ls), after)
         ELSE IF IsSeparator(im, l) THEN DesignRows(im, Tail(ls), TRUE)
         ELSE IF after /\ Contains(l, "|") /\ Len(Segments(l)) >= 4
              THEN <<Product(SubSeq(Segments(l), 1, 4))>> \o DesignRows(im, Tail(ls), after)
              ELSE DesignRows(im, Tail(ls), after)

\* C6: in AFTER_SEPARATOR each line with a pipe yields exactly one row, of its
\* first four segments, when its segment count is >= 4 and no row when it is
\* < 4; skipped lines change nothing else, so the rows are, in line order, those
\* of the lines that yield one.
C6_RowPerLine ==
    LoopEnded => table_products = DesignRows(impl, lines, FALSE)

\* Line i is read in AFTER_SEPARATOR and is a table row.
IsRowLine(i) ==
    /\ \E j \in 1..(i - 1) : IsSeparator(impl, lines[j])
    /\ lines[i] # <<>> /\ ~IsSeparator(impl, lines[i])
    /\ Contains(lines[i], "|")

\* A segment strictly between the first and the last one is empty.
HasInteriorGap(l) == \E i \in 2..(Len(Segments(l)) - 1) : Segments(l)[i] = <<>>

\* C7: an empty interior cell keeps its column: a row such as "| A |  | 5 | 10 |"
\* has four segments and is emitted with name "A", an empty quantity, unit price
\* "5" and total "10".
C7_GapKeepsColumn ==
    LoopEnded =>
        \A i \in 1..Len(lines) :
            (IsRowLine(i) /\ HasInteriorGap(lines[i]) /\ Len(Segments(lines[i])) >= 4) =>
                \E k \in 1..Len(table_products) :
                    table_products[k] = Product(SubSeq(Segments(lines[i]), 1, 4))

\* A line that is a JSON list of dicts, or one dict.
IsJsonRows(l) ==
    LET r == JsonLoads(l) IN
    /\ r.ok
    /\ \/ r.val.t = "dict"
       \/ r.val.t = "list" /\ \A i \in 1..Len(r.val.v) : r.val.v[i].t = "dict"

\* The row objects of such a line.
JsonRowsOf(l) ==
    LET r == JsonLoads(l) IN IF r.val.t = "dict" THEN <<r.val>> ELSE r.val.v

\* The trimmed text of a field of a row; the empty text when the row lacks it.
Trimmed(row, key) == Strip(Str(Get(row, key, StrVal(<<>>))))

\* The trimmed names of the rows that have one, in order.
RECURSIVE NamesOf(_)
NamesOf(rows) ==
    IF rows = <<>> THEN <<>>
    ELSE IF Trimmed(Head(rows), <<"ten_hang">>) # <<>>
         THEN <<Trimmed(Head(rows), <<"ten_hang">>)>> \o NamesOf(Tail(rows))
         ELSE NamesOf(Tail(rows))

\* The names of the normalized records.
OutNames == [ k \in 1..Len(normalized) |-> Get(normalized[k], OutKeys(impl)[1], StrVal(<<>>)).v ]

\* C8: when the table state machine emits no row and the text embeds, among
\* lines of free text, a JSON list of row objects or one row object, the parser
\* yields one record per element with a name, in the order of the elements.
C8_EmbeddedJsonFound ==
    \A i \in 1..Len(lines) :
        ( /\ ppc \in {"done", "raised"}
          /\ table_products = <<>>
          /\ IsJsonRows(lines[i])
          /\ \A j \in 1..Len(lines) : j # i => ~JsonLoads(lines[j]).ok ) =>
            /\ ppc = "done"
            /\ OutNames = NamesOf(JsonRowsOf(lines[i]))

\* The extracted substring does not decode.
DecodeFails(r) == JsonMatch(r) # <<>> /\ ~JsonLoads(JsonMatch(r)).ok

\* C9: the JSON fallback is attempted if and only if the table state machine
\* produced no row; with table rows the products are those rows alone, whatever
\* JSON the text embeds; and when the extracted substring fails to decode the
\* parser returns the empty list and does not raise.
C9_FallbackOnlyWhenNoRows ==
    LoopEnded =>
        /\ json_tried <=> (table_products = <<>>)
        /\ ~json_tried => products = table_products
        /\ (json_tried /\ DecodeFails(response)) =>
              /\ products = <<>>
              /\ ppc # "raised"
              /\ ppc = "done" => normalized = <<>>

\* Table rows were emitted from a text that also embeds a JSON object that
\* decodes, and the rows alone were returned.
C9_Witness ==
    /\ ppc = "done" /\ ~json_tried
    /\ table_products # <<>>
    /\ JsonMatch(response) # <<>> /\ JsonLoads(JsonMatch(response)).ok
    /\ Len(normalized) = Len(table_products)

\* The indices of the rows whose trimmed name is not empty, in order.
RECURSIVE NamedFrom(_, _)
NamedFrom(rows, i) ==
    IF i > Len(rows) THEN <<>>
    ELSE IF Trimmed(rows[i], <<"ten_hang">>) # <<>>
         THEN <<i>> \o NamedFrom(rows, i + 1)
         ELSE NamedFrom(rows, i + 1)

InKeys == << <<"ten_hang">>, <<"so_luong">>, <<"don_gia">>, <<"thanh_tien">> >>

HasKey(row, key) == \E m \in 1..Len(row.v) : row.v[m].k = key

\* C10: the normalizer's output holds exactly the rows whose name is non-empty
\* after trimming, in the order of the input, each field the trimmed text of the
\* row's field; so it is no longer than the input and holds no empty name.
C10_NormalizerFilters ==
    ppc = "done" =>
        LET idx == NamedFrom(products, 1) IN
        /\ Len(normalized) = Len(idx)
        /\ Len(normalized) <= Len(products)
        /\ \A k \in 1..Len(normalized) :
              /\ Get(normalized[k], OutKeys(impl)[1], StrVal(<<>>)).v # <<>>
              /\ \A f \in 1..4 :
                    HasKey(products[idx[k]], InKeys[f]) =>
                        Get(normalized[k], OutKeys(impl)[f], NoneVal) =
                            StrVal(Trimmed(products[idx[k]], InKeys[f]))

\* Three rows were given, the first and the last with a name to trim and the
\* middle one with a blank name, and two records came out.
C10_Witness ==
    /\ ppc = "done"
    /\ products = <<RowFull, RowBlankName, RowMixed>>
    /\ Len(normalized) = 2

-----------------------------------------------------------------------------
(* Claims about the numeric fields of the normalizer's records *)

\* The row lacks the field, or the field's text is empty after trimming.
AbsentOrEmpty(row, key) == ~HasKey(row, key) \/ Trimmed(row, key) = <<>>

\* C11: in every record the normalizer returns, quantity, unitPrice and total
\* are not empty, and each is "0" whenever the row's field is absent or is empty
\* after trimming.
C11_NumericDefaults ==
    ppc = "done" =>
        LET idx == NamedFrom(products, 1) IN
        \A k \in 1..Len(normalized) : \A f \in 2..4 :
            LET field == Get(normalized[k], OutKeys(impl)[f], NoneVal) IN
            /\ field.v # <<>>
            /\ AbsentOrEmpty(products[idx[k]], InKeys[f]) => field = StrVal(<<"0">>)

\* The normalizer's loop run to its end on a list of row mappings.
RECURSIVE Normalize(_, _)
Normalize(im, rows) ==
    IF rows = <<>> THEN <<>>
    ELSE LET np == NormalizedProduct(im, Head(rows)) IN
         IF Kept(im, np) THEN <<np>> \o Normalize(im, Tail(rows))
         ELSE Normalize(im, Tail(rows))

\* C12: the normalizer applied to its own output returns that output:
\* normalize(normalize(L)) = normalize(L).
C12_NormalizeIdempotent ==
    ppc = "done" => Normalize(impl, normalized) = normalized

-----------------------------------------------------------------------------
(* The table parsers and the whole parse as functions of the text *)

\* The loop over the lines run to its end: the products it leaves.
RECURSIVE TableRows(_, _, _, _)
TableRows(im, ls, hp, acc) ==
    IF ls = <<>> THEN acc
    ELSE LET l == Head(ls) IN
         IF l = <<>> THEN TableRows(im, Tail(ls), hp, acc)
         ELSE IF IsSeparator(im, l) THEN TableRows(im, Tail(ls), TRUE, acc)
         ELSE IF im = "app" /\ ~hp /\ HasHeaderKeyword(l) THEN TableRows(im, Tail(ls), hp, acc)
         ELSE IF Contains(l, "|") /\ hp /\ Len(Parts(l)) >= 4
              THEN TableRows(im, Tail(ls), hp, Append(acc, Product(Parts(l))))
              ELSE TableRows(im, Tail(ls), hp, acc)

\* _parse_ocr_response_to_json / parse_ocr_response_to_json: the rows of the
\* table, and the JSON fallback when there is none.
ParseToJson(im, r) ==
    LET rows == TableRows(im, Lines(r), FALSE, <<>>) IN
    IF rows # <<>> THEN rows ELSE JsonProducts(r)

\* The normalizer raises AttributeError on a product that is no dict.
NormalizeRaises(rows) == \E i \in 1..Len(rows) : rows[i].t # "dict"

\* The parser of each entry point: ResponseParser for app/, utils.py for __main__.py.
ParserOf(e) == IF e = "app" THEN "app" ELSE "utils"

-----------------------------------------------------------------------------
(* Batch: state machine of process_folder / extract_from_folder *)

MaxFiles == 3

FileNames == {"a.png", "b.jpg"}

SepBoth == <<"|", "-", "-", "-", "|">>

\* The texts the model answers with in a batch.
BatchTexts == { JoinLines(<<SepBoth, RowBeer>>), JsonList, JsonScalars, BlankLine }

BatchInit ==
    /\ entry \in {"app", "main"}
    /\ bpc = "loop"
    /\ image_files \in UNION { [1..n -> FileNames] : n \in 0..MaxFiles }
    /\ file_no = 1
    /\ results = <<>>
    /\ summary = [total |-> 0, successful |-> 0, failed |-> 0]
    /\ extract_raised = {}

InBatch == bpc = "loop" /\ file_no <= Len(image_files)

\* One iteration, the try block runs to its end: the text is extracted and
\* parsed, and a success entry is appended.
ProcessImage ==
    /\ UNCHANGED <<tvars, pvars, mvars, cvars, uvars>>
    /\ InBatch
    /\ \E text \in BatchTexts :
          LET rows == ParseToJson(ParserOf(entry), text) IN
          /\ ~NormalizeRaises(rows)
          /\ results' = Append(results,
                 [filename |-> image_files[file_no], success |-> TRUE,
                  detail |-> Normalize(ParserOf(entry), rows)])
    /\ file_no' = file_no + 1
    /\ UNCHANGED <<entry, bpc, image_files, summary, extract_raised>>

\* One iteration in which the image decode or the inference raises: the except
\* block appends a failure entry.
ExtractRaises ==
    /\ UNCHANGED <<tvars, pvars, mvars, cvars, uvars>>
    /\ InBatch
    /\ \E cause \in {"decode", "inference"} :
          results' = Append(results,
              [filename |-> image_files[file_no], success |-> FALSE, detail |-> cause])
    /\ extract_raised' = extract_raised \cup {file_no}
    /\ file_no' = file_no + 1
    /\ UNCHANGED <<entry, bpc, image_files, summary>>

\* One iteration in which the text is extracted and the parser raises: the
\* except block appends a failure entry.
ParserRaises ==
    /\ UNCHANGED <<tvars, pvars, mvars, cvars, uvars>>
    /\ InBatch
    /\ \E text \in BatchTexts :
          /\ NormalizeRaises(ParseToJson(ParserOf(entry), text))
          /\ results' = Append(results,
                 [filename |-> image_files[file_no], success |-> FALSE,
                  detail |-> "AttributeError"])
    /\ file_no' = file_no + 1
    /\ UNCHANGED <<entry, bpc, image_files, summary, extract_raised>>

\* sum(1 for r in results if r['success'])
RECURSIVE Successful(_)
Successful(rs) ==
    IF rs = <<>> THEN 0
    ELSE (IF Head(rs).success THEN 1 ELSE 0) + Successful(Tail(rs))

\* After the loop: the summary is computed and the mapping returned.
ReturnSummary ==
    /\ UNCHANGED <<tvars, pvars, mvars, cvars, uvars>>
    /\ bpc = "loop" /\ file_no > Len(image_files)
    /\ summary' = [total |-> Len(results),
                   successful |-> Successful(results),
                   failed |-> Len(results) - Successful(results)]
    /\ bpc' = "done"
    /\ UNCHANGED <<entry, image_files, file_no, results, extract_raised>>

BatchNext == ProcessImage \/ ExtractRaises \/ ParserRaises \/ ReturnSummary

InitBatch == BatchInit /\ TilerIdle /\ ParserIdle /\ ModelIdle /\ CleanIdle /\ UploadIdle

SpecBatch == InitBatch /\ [][BatchNext]_vars

\* C13: of N image files of which M fail (image decode or inference raises),
\* the batch returns N results in input order, result k with the filename of
\* input k, with total = N, failed = M and successful = N - M; a failure is
\* recorded in the entry of its image only.
C13_BatchIsolatesFailures ==
    bpc = "done" =>
        LET N == Len(image_files)
            M == Cardinality(extract_raised) IN
        /\ Len(results) = N
        /\ \A k \in 1..N : results[k].filename = image_files[k]
        /\ \A k \in 1..N : ~results[k].success <=> k \in extract_raised
        /\ summary = [total |-> N, successful |-> N - M, failed |-> M]

-----------------------------------------------------------------------------
(* Model singleton: state machine of initialize_model and                   *)
(* extract_text_from_image called from request threads                     *)

MaxCalls == 2

\* A request thread calls initialize_model, or extract_text_from_image, whose
\* first statement is that call.
Call(t) ==
    /\ UNCHANGED <<tvars, pvars, bvars, cvars, uvars>>
    /\ mpc[t] = "idle" /\ calls[t] < MaxCalls
    /\ \E o \in {"initialize_model", "extract_text_from_image"} : op' = [op EXCEPT ![t] = o]
    /\ calls' = [calls EXCEPT ![t] = @ + 1]
    /\ mpc' = [mpc EXCEPT ![t] = "check"]
    /\ UNCHANGED <<_model, _tokenizer, _device, _dtype, loads, load_failed, chat_tokenizers>>

\* if cls._model is not None: return
CheckModel(t) ==
    /\ UNCHANGED <<tvars, pvars, bvars, cvars, uvars>>
    /\ mpc[t] = "check"
    /\ IF _model # "None"
       THEN /\ mpc' = [mpc EXCEPT ![t] = "returned"]
            /\ UNCHANGED loads
       ELSE /\ mpc' = [mpc EXCEPT ![t] = "device"]
            /\ loads' = loads + 1
    /\ UNCHANGED <<_model, _tokenizer, _device, _dtype, op, calls, load_failed, chat_tokenizers>>

\* cls._device = ...; cls._dtype = ...
SetDevice(t) ==
    /\ UNCHANGED <<tvars, pvars, bvars, cvars, uvars>>
    /\ mpc[t] = "device"
    /\ _device' = "cpu"
    /\ _dtype' = "float32"
    /\ mpc' = [mpc EXCEPT ![t] = "model"]
    /\ UNCHANGED <<_model, _tokenizer, op, calls, loads, load_failed, chat_tokenizers>>

\* cls._model = AutoModel.from_pretrained(...).eval(), which may raise.
LoadModel(t) ==
    /\ UNCHANGED <<tvars, pvars, bvars, cvars, uvars>>
    /\ mpc[t] = "model"
    /\ \/ /\ _model' = "model"
          /\ mpc' = [mpc EXCEPT ![t] = "tokenizer"]
          /\ UNCHANGED load_failed
       \/ /\ load_failed' = TRUE
          /\ mpc' = [mpc EXCEPT ![t] = "idle"]
          /\ UNCHANGED _model
    /\ UNCHANGED <<_tokenizer, _device, _dtype, op, calls, loads, chat_tokenizers>>

\* cls._tokenizer = AutoTokenizer.from_pretrained(...), which may raise; then
\* the method returns.
LoadTokenizer(t) ==
    /\ UNCHANGED <<tvars, pvars, bvars, cvars, uvars>>
    /\ mpc[t] = "tokenizer"
    /\ \/ /\ _tokenizer' = "tokenizer"
          /\ mpc' = [mpc EXCEPT ![t] = "returned"]
          /\ UNCHANGED load_failed
       \/ /\ load_failed' = TRUE
          /\ mpc' = [mpc EXCEPT ![t] = "idle"]
          /\ UNCHANGED _tokenizer
    /\ UNCHANGED <<_model, _device, _dtype, op, calls, loads, chat_tokenizers>>

\* initialize_model has returned normally: its caller goes on, to the image in
\* extract_text_from_image.
Returned(t) ==
    /\ UNCHANGED <<tvars, pvars, bvars, cvars, uvars>>
    /\ mpc[t] = "returned"
    /\ mpc' = [mpc EXCEPT ![t] = IF op[t] = "extract_text_from_image" THEN "image" ELSE "idle"]
    /\ UNCHANGED <<_model, _tokenizer, _device, _dtype, op, calls, loads, load_failed,
                   chat_tokenizers>>

\* pixel_values = cls._load_image(image_path).to(cls._dtype), which may raise.
LoadImage(t) ==
    /\ UNCHANGED <<tvars, pvars, bvars, cvars, uvars>>
    /\ mpc[t] = "image"
    /\ \E decoded \in BOOLEAN : mpc' = [mpc EXCEPT ![t] = IF decoded THEN "chat" ELSE "idle"]
    /\ UNCHANGED <<_model, _tokenizer, _device, _dtype, op, calls, loads, load_failed,
                   chat_tokenizers>>

\* response, _ = cls._model.chat(cls._tokenizer, ...); return response
Chat(t) ==
    /\ UNCHANGED <<tvars, pvars, bvars, cvars, uvars>>
    /\ mpc[t] = "chat"
    /\ chat_tokenizers' = chat_tokenizers \cup {_tokenizer}
    /\ mpc' = [mpc EXCEPT ![t] = "idle"]
    /\ UNCHANGED <<_model, _tokenizer, _device, _dtype, op, calls, loads, load_failed>>

ModelNext ==
    \E t \in Threads :
        \/ Call(t) \/ CheckModel(t) \/ SetDevice(t) \/ LoadModel(t) \/ LoadTokenizer(t)
        \/ Returned(t) \/ LoadImage(t) \/ Chat(t)

InitModel == ModelIdle /\ TilerIdle /\ ParserIdle /\ BatchIdle /\ CleanIdle /\ UploadIdle

SpecModel == InitModel /\ [][ModelNext]_vars

\* C14: under any interleaving of calls from different request threads, the
\* body after the check "_model is not None" is executed at most once; looked
\* at while no load has raised, so that a retry after a failed load is not
\* counted against it.
C14_LoadedAtMostOnce == ~load_failed => loads <= 1

\* C19: whenever a call of initialize_model returns normally, the model, the
\* tokenizer, the device and the dtype are all set, and _model.chat is never
\* invoked with a tokenizer that is None.
C19_ReturnedMeansInitialized ==
    /\ \A t \in Threads :
          mpc[t] = "returned" =>
              /\ _model # "None" /\ _tokenizer # "None"
              /\ _device # "None" /\ _dtype # "None"
    /\ "None" \notin chat_tokenizers

-----------------------------------------------------------------------------
(* Claim about invalid tiling bounds *)

\* C15: when the tiling bounds are invalid (minTiles > maxTiles), preprocessing
\* fails before any model call: no grid is selected and no tile is produced.
C15_InvalidBoundsRejected ==
    min_num > max_num => ~Selected /\ processed_images = <<>>

-----------------------------------------------------------------------------
(* Numeric canonicalization: state machine of _clean_numeric_value /        *)
(* clean_numeric_value (the two are the same text)                         *)
(*                                                                         *)
(* Here every character of the value is one element; a character outside   *)
(* ASCII is written by its name: "d-stroke", "D-stroke", "dong-sign",      *)
(* "arabic-3" (ARABIC-INDIC DIGIT THREE, which \d matches).                *)

MaxChars == 3

\* \d
IsDecimalDigit(c) ==
    c \in {"0", "1", "2", "3", "4", "5", "6", "7", "8", "9", "arabic-3"}

\* [đĐ₫VNDvnd,.\s]
IsCurrencyChar(c) ==
    \/ c \in {"d-stroke", "D-stroke", "dong-sign", "V", "N", "D", "v", "n", "d", ",", "."}
    \/ IsSpace(c)

\* re.sub(r'[đĐ₫VNDvnd,.\s]+', '', value): every run of the class is removed
SubCurrency(s) == SelectSeq(s, LAMBDA c : ~IsCurrencyChar(c))

\* A substitution that leaves the signs in as well.
SubNonDigitsKeepSign(s) == SelectSeq(s, LAMBDA c : IsDecimalDigit(c) \/ c = "-")

\* re.sub(r'[^\d]', '', cleaned)
SubNonDigits(s) == SelectSeq(s, IsDecimalDigit)

CleanChars == {"0", "1", "arabic-3", ".", ",", "d-stroke", "V", " ", "x", "-"}

PriceDong == <<"1", "0", ".", "0", "0", "0", "d-stroke">>
PriceVND == <<"1", ",", "2", "3", "4", " ", "V", "N", "D">>

CleanInit ==
    /\ cpc = "start"
    /\ value \in UNION { [1..n -> CleanChars] : n \in 0..MaxChars } \cup {PriceDong, PriceVND}
    /\ cleaned = <<>>
    /\ clean_out = <<>>

\* if not value: return "0"
ReturnZero ==
    /\ UNCHANGED <<tvars, pvars, bvars, mvars, uvars>>
    /\ cpc = "start" /\ value = <<>>
    /\ clean_out' = <<"0">>
    /\ cpc' = "done"
    /\ UNCHANGED <<value, cleaned>>

\* cleaned = re.sub(r'[đĐ₫VNDvnd,.\s]+', '', value)
StripCurrency ==
    /\ UNCHANGED <<tvars, pvars, bvars, mvars, uvars>>
    /\ cpc = "start" /\ value # <<>>
    /\ cleaned' = SubCurrency(value)
    /\ cpc' = "stripped"
    /\ UNCHANGED <<value, clean_out>>

\* cleaned = re.sub(r'[^\d]', '', cleaned)
KeepDigits ==
    /\ UNCHANGED <<tvars, pvars, bvars, mvars, uvars>>
    /\ cpc = "stripped"
    /\ cleaned' = SubNonDigits(cleaned)
    /\ cpc' = "digits"
    /\ UNCHANGED <<value, clean_out>>

\* return cleaned if cleaned else "0"
ReturnCleaned ==
    /\ UNCHANGED <<tvars, pvars, bvars, mvars, uvars>>
    /\ cpc = "digits"
    /\ clean_out' = IF cleaned # <<>> THEN cleaned ELSE <<"0">>
    /\ cpc' = "done"
    /\ UNCHANGED <<value, cleaned>>

CleanNext == ReturnZero \/ StripCurrency \/ KeepDigits \/ ReturnCleaned

InitClean == CleanInit /\ TilerIdle /\ ParserIdle /\ BatchIdle /\ ModelIdle /\ UploadIdle

SpecClean == InitClean /\ [][CleanNext]_vars

\* The digits of a string, in their order.
RECURSIVE DigitsOf(_)
DigitsOf(s) ==
    IF s = <<>> THEN <<>>
    ELSE (IF IsDecimalDigit(Head(s)) THEN <<Head(s)>> ELSE <<>>) \o DigitsOf(Tail(s))

\* C16: for every input string the canonical form is a non-empty string of
\* digits only: the digits of the input in their order, or "0" when the input
\* has no digit; clean("10.000d-stroke") = "10000", clean("") = "0" and
\* clean("1,234 VND") = "1234".
C16_CleanIsDigits ==
    cpc = "done" =>
        /\ clean_out # <<>>
        /\ \A i \in 1..Len(clean_out) : IsDecimalDigit(clean_out[i])
        /\ clean_out = IF DigitsOf(value) # <<>> THEN DigitsOf(value) ELSE <<"0">>
        /\ value = PriceDong => clean_out = <<"1", "0", "0", "0", "0">>
        /\ value = <<>> => clean_out = <<"0">>
        /\ value = PriceVND => clean_out = <<"1", "2", "3", "4">>

\* The price "10.000" with the dong sign has been cleaned to its five digits.
C16_Witness ==
    /\ cpc = "done"
    /\ value = PriceDong
    /\ clean_out = <<"1", "0", "0", "0", "0">>

-----------------------------------------------------------------------------
(* Claims about the two parsers *)

OtherParser(im) == IF im = "app" THEN "utils" ELSE "app"

\* C17: the two table parsers agree: on every raw text the rows one of them
\* returns are the rows the other returns, in the same order.
C17_ParsersAgree ==
    ppc \in {"normalize", "done", "raised"} =>
        products = ParseToJson(OtherParser(impl), response)

\* C18: ResponseParser.parse_ocr_response is total: on every raw text,
\* a text whose JSON fallback decodes to an array of elements that are no
\* mappings included, it returns a list of records and never raises.
C18_ParseIsTotal ==
    impl = "app" => ppc # "raised"

-----------------------------------------------------------------------------
(* Upload: state machine of the /image-to-text handlers, image_to_text of   *)
(* __main__.py and extract_from_image of ocr_routes.py, serving requests    *)
(* in threads                                                              *)

MaxClock == 1

\* The values uuid.uuid4() draws from; a value drawn is taken not to be drawn
\* again.
UUIDs == 1..NumRequests

\* generate_timestamped_filename: f"{name}_{timestamp}{ext}" in __main__.py,
\* f"{name}_{timestamp}_{crypt}{ext}" in file_service.py; the path is kept as
\* the tuple of its parts.
GeneratedFilename(e, original_filename, timestamp, crypt) ==
    IF e = "main" THEN <<original_filename, timestamp>>
    ELSE <<original_filename, timestamp, crypt>>

\* os.path.exists(path)
Exists(path) == \E f \in files : f.path = path

\* The folder after file.save(path) of request r: an existing file is replaced.
Saved(path, r) == {f \in files : f.path # path} \cup {[path |-> path, content |-> r]}

\* The folder after os.remove(path)
Removed(path) == {f \in files : f.path # path}

InFlight(r) == upc[r] \in {"named", "saved", "processed", "failed"}

\* Another request has saved its file at the path and has not cleaned up yet.
HeldByOther(r, path) ==
    \E s \in Requests \ {r} :
        upc[s] \in {"saved", "processed", "failed"} /\ filepath[s] = path /\ Exists(path)

UploadInit ==
    /\ entry \in {"app", "main"}
    /\ clock = 0
    /\ files = {}
    /\ upc = [r \in Requests |-> "new"]
    /\ filepath = [r \in Requests |-> "None"]
    /\ status = [r \in Requests |-> 0]
    /\ uuids = {}
    /\ clobbered = FALSE

\* time passes to the next second
Tick ==
    /\ UNCHANGED <<tvars, pvars, bvars, mvars, cvars>>
    /\ clock < MaxClock
    /\ clock' = clock + 1
    /\ UNCHANGED <<files, upc, filepath, status, uuids, clobbered>>

\* A valid upload arrives: filepath is set from the secured name, the clock
\* and, in file_service.py, a uuid4.
Receive(r) ==
    /\ UNCHANGED <<tvars, pvars, bvars, mvars, cvars>>
    /\ upc[r] = "new"
    /\ \E original_filename \in FileNames : \E crypt \in UUIDs \ uuids :
          /\ filepath' = [filepath EXCEPT ![r] =
                             GeneratedFilename(entry, original_filename, clock, crypt)]
          /\ uuids' = IF entry = "main" THEN uuids ELSE uuids \cup {crypt}
    /\ upc' = [upc EXCEPT ![r] = "named"]
    /\ UNCHANGED <<clock, files, status, clobbered>>

\* file.save(filepath)
SaveFile(r) ==
    /\ UNCHANGED <<tvars, pvars, bvars, mvars, cvars>>
    /\ upc[r] = "named"
    /\ files' = Saved(filepath[r], r)
    /\ clobbered' = (clobbered \/ HeldByOther(r, filepath[r]))
    /\ upc' = [upc EXCEPT ![r] = "saved"]
    /\ UNCHANGED <<clock, filepath, status, uuids>>

\* The image at filepath is processed and parsed; this raises when the file is
\* not there, and may raise when it is.
ProcessFile(r) ==
    /\ UNCHANGED <<tvars, pvars, bvars, mvars, cvars>>
    /\ upc[r] = "saved"
    /\ \E raised \in BOOLEAN :
          /\ ~Exists(filepath[r]) => raised
          /\ upc' = [upc EXCEPT ![r] = IF raised THEN "failed" ELSE "processed"]
    /\ UNCHANGED <<clock, files, filepath, status, uuids, clobbered>>

\* After processing: the file is removed if it exists and 200 is returned.
DeleteFile(r) ==
    /\ UNCHANGED <<tvars, pvars, bvars, mvars, cvars>>
    /\ upc[r] = "processed"
    /\ files' = Removed(filepath[r])
    /\ clobbered' = (clobbered \/ HeldByOther(r, filepath[r]))
    /\ status' = [status EXCEPT ![r] = 200]
    /\ upc' = [upc EXCEPT ![r] = "done"]
    /\ UNCHANGED <<clock, filepath, uuids>>

\* The except block: the file is removed if it exists and 500 is returned.
CleanUpOnError(r) ==
    /\ UNCHANGED <<tvars, pvars, bvars, mvars, cvars>>
    /\ upc[r] = "failed"
    /\ files' = Removed(filepath[r])
    /\ clobbered' = (clobbered \/ HeldByOther(r, filepath[r]))
    /\ status' = [status EXCEPT ![r] = 500]
    /\ upc' = [upc EXCEPT ![r] = "done"]
    /\ UNCHANGED <<clock, filepath, uuids>>

UploadNext ==
    \/ Tick
    \/ \E r \in Requests :
          Receive(r) \/ SaveFile(r) \/ ProcessFile(r) \/ DeleteFile(r) \/ CleanUpOnError(r)

InitUpload ==
    UploadInit /\ TilerIdle /\ ParserIdle /\ BatchNotCalled /\ ModelIdle /\ CleanIdle

SpecUpload == InitUpload /\ [][UploadNext]_vars

\* C20: two /image-to-text requests in flight at the same time, two uploads of
\* the same filename within the same second included, have distinct temporary
\* file paths, so that the save or the cleanup of one never overwrites or
\* deletes the file the other is still processing; and once a request has
\* completed its temporary file no longer exists.
C20_TempFilesDistinct ==
    /\ \A r \in Requests : \A s \in Requests \ {r} :
          InFlight(r) /\ InFlight(s) => filepath[r] # filepath[s]
    /\ ~clobbered
    /\ \A r \in Requests : upc[r] = "done" => ~Exists(filepath[r])

====
